---------------------------- MODULE Spec2Model ----------------------------
(***************************************************************************)
(* Dynamic response of single-degree-of-freedom linear structural systems: *)
(* the load models and closed-form modal superposition of                  *)
(* python/load_cases.py and the Newmark and central-difference integrators *)
(* of python/numeric_solutions.py.                                         *)
(*                                                                         *)
(* Matrices are 1 x 1 (n = 1), so M, C, K, u0, v0 and every column of the  *)
(* u, v, a matrices are scalars.  Numbers are exact rationals <<num, den>> *)
(* with den > 0 and gcd(num, den) = 1.  The one place where rounding       *)
(* decides a discrete outcome, the floating quotients from which           *)
(* np.arange derives the length of a time grid, is computed with           *)
(* round-to-nearest-even at MantissaBits significant bits (IEEE double     *)
(* has 53).  cos, sin and exp are not evaluated: a closed-form sample is   *)
(* kept as a term [amp, shape] naming the formula and its arguments.       *)
(* Column k of a numpy array (0-based) is element k + 1 of a sequence.     *)
(***************************************************************************)
EXTENDS Integers, Sequences, FiniteSets, TLC

VARIABLES pc, inp, call, ret, ret1, t, u, v, a, u_1, i, n_iter

vars == <<pc, inp, call, ret, ret1, t, u, v, a, u_1, i, n_iter>>

(***************************************************************************)
(* Bounds of the model.                                                    *)
(***************************************************************************)
MantissaBits == 6
MaxSteps == 13
MaxSimTime == 2
MaxTf == 3
MaxLen == 3
MaxTime == 3

(***************************************************************************)
(* Exact rational arithmetic.                                              *)
(***************************************************************************)
Abs(x) == IF x < 0 THEN -x ELSE x

RECURSIVE GCD(_, _)
GCD(x, y) == IF y = 0 THEN x ELSE GCD(y, x % y)

Rat(n, d) ==
    LET g == GCD(Abs(n), Abs(d))
        s == IF d < 0 THEN -1 ELSE 1
    IN  <<(s * n) \div g, (s * d) \div g>>

R(k) == <<k, 1>>
RNeg(x) == <<-x[1], x[2]>>
RAdd(x, y) ==
    LET g == GCD(x[2], y[2])
    IN  Rat(x[1] * (y[2] \div g) + y[1] * (x[2] \div g), (x[2] \div g) * y[2])
RSub(x, y) == RAdd(x, RNeg(y))
RMul(x, y) ==
    LET g1 == GCD(Abs(x[1]), y[2])
        g2 == GCD(Abs(y[1]), x[2])
    IN  IF x[1] = 0 \/ y[1] = 0 THEN <<0, 1>>
        ELSE <<(x[1] \div g1) * (y[1] \div g2), (x[2] \div g2) * (y[2] \div g1)>>
RInv(x) == IF x[1] < 0 THEN <<-x[2], -x[1]>> ELSE <<x[2], x[1]>>
RDiv(x, y) == RMul(x, RInv(y))
RLe(x, y) == x[1] * y[2] <= y[1] * x[2]
RLt(x, y) == x[1] * y[2] < y[1] * x[2]
RAbs(x) == <<Abs(x[1]), x[2]>>
Floor(x) == x[1] \div x[2]
Ceil(x) == -((-x[1]) \div x[2])

(***************************************************************************)
(* Floating point: round to nearest, ties to even, MantissaBits bits.      *)
(***************************************************************************)
RECURSIVE Pow2(_)
Pow2(k) == IF k = 0 THEN 1 ELSE 2 * Pow2(k - 1)

Scale(x, e) == IF e >= 0 THEN RDiv(x, R(Pow2(e))) ELSE RMul(x, R(Pow2(-e)))

RECURSIVE FlExp(_, _)
FlExp(x, e) ==
    IF RLe(R(Pow2(MantissaBits)), Scale(x, e)) THEN FlExp(x, e + 1)
    ELSE IF RLt(Scale(x, e), R(Pow2(MantissaBits - 1))) THEN FlExp(x, e - 1)
    ELSE e

RoundHalfEven(y) ==
    LET m == Floor(y)
        r == RSub(y, R(m))
    IN  IF RLt(<<1, 2>>, r) \/ (r = <<1, 2>> /\ m % 2 = 1) THEN m + 1 ELSE m

Fl(x) ==
    IF x[1] = 0 THEN <<0, 1>>
    ELSE LET e == FlExp(RAbs(x), 0)
             m == RoundHalfEven(Scale(RAbs(x), e))
             y == Scale(R(m), -e)
         IN  IF x[1] < 0 THEN RNeg(y) ELSE y

FDiv(x, y) == Fl(RDiv(x, y))
FMul(x, y) == Fl(RMul(x, y))


(***************************************************************************)
(* np.arange(start=0, stop, step): the length is the ceiling of the        *)
(* floating quotient (stop - start) / step, no sample when that is <= 0,   *)
(* and sample k is start + k * step.                                       *)
(***************************************************************************)
arange(stop, step) ==
    LET len == Ceil(FDiv(stop, step))
    IN  IF len <= 0 THEN <<>> ELSE [k \in 1..len |-> FMul(R(k - 1), step)]

(***************************************************************************)
(* np.sqrt on the perfect squares the inputs are drawn from.               *)
(***************************************************************************)
ISqrt(n) == CHOOSE r \in 0..n : r * r = n
RSqrt(x) == <<ISqrt(x[1]), ISqrt(x[2])>>

(***************************************************************************)
(* Closed-form samples.  A term is amp * shape, where shape names the      *)
(* closed-form expression (f), its parameters (par) and the time sample    *)
(* (t); nan marks an IEEE not-a-number sample.                             *)
(***************************************************************************)
Term(amp, f, par, time) == [nan |-> FALSE, amp |-> amp, f |-> f, par |-> par, t |-> time]
NaN(time) == [nan |-> TRUE, amp |-> <<0, 1>>, f |-> "nan", par |-> <<>>, t |-> time]

\* phi @ step for a 1 x 1 phi: every sample of the row is scaled by phi.
MatMul(phi, step) ==
    [k \in 1..Len(step) |->
        IF step[k].nan THEN step[k]
        ELSE [step[k] EXCEPT !.amp = RMul(phi, step[k].amp)]]

\* LA.eigh(K, M) for 1 x 1 matrices: eigenvalue K/M, M-orthonormal vector.
eigh(K, M) == [omega2 |-> RDiv(K, M), phi |-> RInv(RSqrt(M))]

(***************************************************************************)
(* Load models: load(t).                                                   *)
(***************************************************************************)
\* Fault variant: the boundary sample t = td on the unloaded side (t < td).
Impulsive_load_strict(fo, td, time) == IF RLt(time, td) THEN fo ELSE RMul(R(0), fo)

Impulsive_load(fo, td, time) == IF RLe(time, td) THEN fo ELSE RMul(R(0), fo)

Ramp_load(fo, tr, time) ==
    IF RLe(time, tr) THEN RDiv(RMul(fo, time), tr) ELSE fo

(***************************************************************************)
(* Impulsive.response and Ramp.response: two closed-form branches over the *)
(* boolean-mask selections t[t <= split] and t[t > split], concatenated.   *)
(***************************************************************************)
\* Fault variant: the second mask is t >= td, so the boundary sample is taken twice.
Impulsive_response_dup(td, Kp_i, Fp_i, omega_i, grid) ==
    LET t1 == SelectSeq(grid, LAMBDA x : RLe(x, td))
        Dp1 == [k \in 1..Len(t1) |->
                   Term(RDiv(Fp_i, Kp_i), "imp1", <<omega_i, td>>, t1[k])]
        t2 == SelectSeq(grid, LAMBDA x : RLe(td, x))
        Dp2 == [k \in 1..Len(t2) |->
                   Term(RDiv(Fp_i, Kp_i), "imp2", <<omega_i, td>>, t2[k])]
    IN  Dp1 \o Dp2

Impulsive_response(td, Kp_i, Fp_i, omega_i, grid) ==
    LET t1 == SelectSeq(grid, LAMBDA x : RLe(x, td))
        Dp1 == [k \in 1..Len(t1) |->
                   Term(RDiv(Fp_i, Kp_i), "imp1", <<omega_i, td>>, t1[k])]
        t2 == SelectSeq(grid, LAMBDA x : RLt(td, x))
        Dp2 == [k \in 1..Len(t2) |->
                   Term(RDiv(Fp_i, Kp_i), "imp2", <<omega_i, td>>, t2[k])]
    IN  Dp1 \o Dp2

Ramp_response(tr, Kp_i, Fp_i, omega_i, grid) ==
    LET t1 == SelectSeq(grid, LAMBDA x : RLe(x, tr))
        Dp1 == [k \in 1..Len(t1) |->
                   Term(RDiv(Fp_i, Kp_i), "ramp1", <<omega_i, tr>>, t1[k])]
        t2 == SelectSeq(grid, LAMBDA x : RLt(tr, x))
        Dp2 == [k \in 1..Len(t2) |->
                   Term(RDiv(Fp_i, Kp_i), "ramp2", <<omega_i, tr>>, t2[k])]
    IN  Dp1 \o Dp2

(***************************************************************************)
(* Harmonic.response.  np.sqrt of a negative number is nan, and a zero     *)
(* omegad makes C2 a division by zero (inf or nan, then inf * sin(0) is    *)
(* nan); a zero denominator of Qi and Ri is 0/0.  numpy raises no          *)
(* exception for any of these: every sample of the mode is nan.            *)
(***************************************************************************)
Harmonic_response(w, omega_i, ni_i, up_i, vp_i, Fpi, grid) ==
    LET omegad2 == RSub(RMul(omega_i, omega_i), RMul(ni_i, ni_i))
        dw2 == RSub(RMul(omega_i, omega_i), RMul(w, w))
        den == RAdd(RMul(dw2, dw2), RMul(R(4), RMul(RMul(ni_i, ni_i), RMul(w, w))))
        Qi == RDiv(RMul(dw2, Fpi), den)
        Ri == RDiv(RMul(RMul(R(2), RMul(ni_i, w)), Fpi), den)
        C1 == RSub(up_i, Qi)
        C2n == RAdd(RSub(vp_i, RMul(Ri, w)), RMul(ni_i, C1))
    IN  IF RLe(omegad2, R(0)) \/ den = R(0)
        THEN [k \in 1..Len(grid) |-> NaN(grid[k])]
        ELSE [k \in 1..Len(grid) |->
                 Term(R(1), "harm", <<ni_i, omegad2, C1, C2n, Qi, Ri, w>>, grid[k])]

(***************************************************************************)
(* modal_superposition.  sim_time / num_steps is a Python division: it     *)
(* raises ZeroDivisionError for num_steps = 0.  A result is                *)
(* [status |-> "ok", t, u]; any other status is the exception raised.      *)
(***************************************************************************)
Raised(exc) == [status |-> exc, t |-> <<>>, u |-> <<>>]
NoResult == Raised("none")

Harmonic_modal_superposition(w, M, C, K, u0, v0, fo, sim_time, num_steps) ==
    LET e == eigh(K, M)
        phi == e.phi
        omega_i == RSqrt(e.omega2)
        Mp == RMul(phi, RMul(M, phi))
        Cp == RMul(phi, RMul(C, phi))
        Fp_i == RMul(phi, fo)
        up == RMul(phi, RMul(M, u0))
        vp == RMul(phi, RMul(M, v0))
        ni_i == RDiv(Cp, RMul(R(2), Mp))
    IN  IF num_steps = 0 THEN Raised("ZeroDivisionError")
        ELSE LET grid == arange(R(sim_time), FDiv(R(sim_time), R(num_steps)))
                 step == Harmonic_response(w, omega_i, ni_i, up, vp, Fp_i, grid)
             IN  [status |-> "ok", t |-> grid, u |-> MatMul(phi, step)]

\* Fault variant: the modal initial displacement up = phi.T @ M @ u0 enters the response.
Impulsive_modal_superposition_u0(td, M, K, u0, fo, sim_time, num_steps) ==
    LET e == eigh(K, M)
        phi == e.phi
        omega_i == RSqrt(e.omega2)
        Kp_i == RMul(phi, RMul(K, phi))
        Fp_i == RMul(phi, fo)
        up == RMul(phi, RMul(M, u0))
    IN  IF num_steps = 0 THEN Raised("ZeroDivisionError")
        ELSE LET grid == arange(R(sim_time), FDiv(R(sim_time), R(num_steps)))
                 step == Impulsive_response(td, Kp_i, RAdd(Fp_i, up), omega_i, grid)
             IN  [status |-> "ok", t |-> grid, u |-> MatMul(phi, step)]

Impulsive_modal_superposition(td, M, K, u0, fo, sim_time, num_steps) ==
    LET e == eigh(K, M)
        phi == e.phi
        omega_i == RSqrt(e.omega2)
        Kp_i == RMul(phi, RMul(K, phi))
        Fp_i == RMul(phi, fo)
    IN  IF num_steps = 0 THEN Raised("ZeroDivisionError")
        ELSE LET grid == arange(R(sim_time), FDiv(R(sim_time), R(num_steps)))
                 step == Impulsive_response(td, Kp_i, Fp_i, omega_i, grid)
             IN  [status |-> "ok", t |-> grid, u |-> MatMul(phi, step)]

Ramp_modal_superposition(tr, M, K, fo, sim_time, num_steps) ==
    LET e == eigh(K, M)
        phi == e.phi
        omega_i == RSqrt(e.omega2)
        Kp_i == RMul(phi, RMul(K, phi))
        Fp_i == RMul(phi, fo)
    IN  IF num_steps = 0 THEN Raised("ZeroDivisionError")
        ELSE LET grid == arange(R(sim_time), FDiv(R(sim_time), R(num_steps)))
                 step == Ramp_response(tr, Kp_i, Fp_i, omega_i, grid)
             IN  [status |-> "ok", t |-> grid, u |-> MatMul(phi, step)]

(***************************************************************************)
(* Inputs of the load models and of the modal path.  Masses are perfect    *)
(* squares and K/M is a perfect square, so that phi and omega_i are        *)
(* rational.  Rise times and durations are positive.                       *)
(***************************************************************************)
TimeSet == {<<k, 2>> : k \in {1, 3, 5}} \cup {R(k) : k \in 0..MaxTime}
SplitSet == {R(1), R(2), <<3, 2>>}
AmpSet == {R(1), R(2), R(-3)}

AscGrids ==
    LET raw == UNION {[1..n -> 0..MaxTime] : n \in 0..MaxLen}
        asc == {s \in raw : \A j \in 1..(Len(s) - 1) : s[j] <= s[j + 1]}
    IN  {[k \in 1..Len(s) |-> R(s[k])] : s \in asc}

LoadInputs ==
    [op : {"load"}, kind : {"Impulsive", "Ramp"}, fo : AmpSet,
     split : SplitSet, time : TimeSet]

ResponseInputs ==
    [op : {"response"}, kind : {"Impulsive", "Ramp"}, split : SplitSet,
     Kp_i : {R(4)}, Fp_i : {R(1), R(2)}, omega_i : {R(2)}, grid : AscGrids]

StepCounts == (-2)..MaxSteps

ModalInputs ==
    [op : {"modal"}, kind : {"Harmonic"}, w : {R(1), R(2)},
     M : {R(1), R(4)}, C : {R(0), R(2), R(4), R(6)}, K : {R(4)},
     u0 : {R(0), R(1)}, v0 : {R(0)}, fo : {R(1)},
     sim_time : 1..MaxSimTime, num_steps : StepCounts]
    \cup
    [op : {"modal"}, kind : {"Impulsive"}, split : {R(1)},
     M : {R(1), R(4)}, K : {R(4), R(16)},
     u0 : {R(0), R(1)}, fo : {R(1), R(2)},
     sim_time : 1..MaxSimTime, num_steps : StepCounts]
    \cup
    [op : {"modal"}, kind : {"Ramp"}, split : {R(1)},
     M : {R(1), R(4)}, K : {R(4), R(16)},
     u0 : {R(0)}, fo : {R(1), R(2)},
     sim_time : 1..MaxSimTime, num_steps : StepCounts]

InitialDisplacements == {R(0), R(1), R(5)}

\* The integrators' locals, unused on the modal path.
Idle ==
    /\ t = <<>> /\ u = <<>> /\ v = <<>> /\ a = <<>>
    /\ u_1 = [view |-> FALSE, val |-> <<0, 1>>, col |-> 0]
    /\ i = 0 /\ n_iter = 0

InitModal ==
    /\ pc = "ready"
    /\ inp \in LoadInputs \cup ResponseInputs \cup ModalInputs
    /\ call = 1
    /\ ret = NoResult
    /\ ret1 = NoResult
    /\ Idle

load(in) ==
    IF in.kind = "Impulsive" THEN Impulsive_load(in.fo, in.split, in.time)
    ELSE Ramp_load(in.fo, in.split, in.time)

response(in) ==
    IF in.kind = "Impulsive"
    THEN Impulsive_response(in.split, in.Kp_i, in.Fp_i, in.omega_i, in.grid)
    ELSE Ramp_response(in.split, in.Kp_i, in.Fp_i, in.omega_i, in.grid)

modal_superposition(in) ==
    CASE in.kind = "Harmonic" ->
           Harmonic_modal_superposition(in.w, in.M, in.C, in.K, in.u0, in.v0,
                                        in.fo, in.sim_time, in.num_steps)
      [] in.kind = "Impulsive" ->
           Impulsive_modal_superposition(in.split, in.M, in.K, in.u0, in.fo,
                                         in.sim_time, in.num_steps)
      [] in.kind = "Ramp" ->
           Ramp_modal_superposition(in.split, in.M, in.K, in.fo,
                                    in.sim_time, in.num_steps)

CallLoad ==
    /\ pc = "ready" /\ inp.op = "load"
    /\ ret' = [status |-> "ok", t |-> <<>>, u |-> <<load(inp)>>]
    /\ pc' = "returned"
    /\ UNCHANGED <<inp, call, ret1, t, u, v, a, u_1, i, n_iter>>

CallResponse ==
    /\ pc = "ready" /\ inp.op = "response"
    /\ ret' = [status |-> "ok", t |-> inp.grid, u |-> response(inp)]
    /\ pc' = "returned"
    /\ UNCHANGED <<inp, call, ret1, t, u, v, a, u_1, i, n_iter>>

CallModal ==
    /\ pc = "ready" /\ inp.op = "modal"
    /\ ret' = modal_superposition(inp)
    /\ pc' = "returned"
    /\ UNCHANGED <<inp, call, ret1, t, u, v, a, u_1, i, n_iter>>

\* A second call of modal_superposition that differs from the first only
\* in the initial displacement u0 (Ramp takes no u0).
CallAgainOtherU0 ==
    /\ pc = "returned" /\ inp.op = "modal" /\ call = 1
    /\ inp.kind \in {"Harmonic", "Impulsive"}
    /\ \E x \in InitialDisplacements \ {inp.u0} : inp' = [inp EXCEPT !.u0 = x]
    /\ ret1' = ret
    /\ ret' = NoResult
    /\ call' = 2
    /\ pc' = "ready"
    /\ UNCHANGED <<t, u, v, a, u_1, i, n_iter>>

NextModal == CallLoad \/ CallResponse \/ CallModal \/ CallAgainOtherU0

SpecModal == InitModal /\ [][NextModal]_vars

(***************************************************************************)
(* Properties of the load models and of the modal path (SpecModal).        *)
(***************************************************************************)
Returned(op) == pc = "returned" /\ inp.op = op

\* C3 (as claimed): for sim_time T > 0 and num_steps N >= 1 every
\* modal_superposition returns a time grid of exactly N samples,
\* t_k = k * (T / N) for k = 0..N-1, the last one strictly less than T.
C3_GridHasExactlyNSamples ==
    (Returned("modal") /\ inp.num_steps >= 1) =>
        /\ ret.status = "ok"
        /\ Len(ret.t) = inp.num_steps
        /\ \A k \in 0..(Len(ret.t) - 1) :
               ret.t[k + 1] = FMul(R(k), FDiv(R(inp.sim_time), R(inp.num_steps)))
        /\ RLt(ret.t[Len(ret.t)], R(inp.sim_time))

\* C4: Impulsive.response and Ramp.response partition an ascending grid at
\* the split point: the result has the length of the grid, entry k belongs
\* to sample t_k, and it is the first branch's value exactly when
\* t_k <= split (the boundary sample included), else the second branch's.
C4_ResponsePartitionsGrid ==
    Returned("response") =>
        /\ Len(ret.u) = Len(inp.grid)
        /\ \A k \in 1..Len(ret.u) :
               /\ k <= Len(inp.grid)
               /\ ret.u[k].t = inp.grid[k]
               /\ ret.u[k].f =
                      IF RLe(inp.grid[k], inp.split)
                      THEN (IF inp.kind = "Impulsive" THEN "imp1" ELSE "ramp1")
                      ELSE (IF inp.kind = "Impulsive" THEN "imp2" ELSE "ramp2")

\* C4 witness: a response over a grid with a sample below the split, one on
\* it and one above it.
C4_Witness ==
    /\ Returned("response")
    /\ \E j1, j2, j3 \in 1..Len(inp.grid) :
           /\ RLt(inp.grid[j1], inp.split)
           /\ inp.grid[j2] = inp.split
           /\ RLt(inp.split, inp.grid[j3])

\* C5 (as claimed): modal_superposition with num_steps <= 0 fails with
\* InvalidParameterError and returns nothing.
C5_NonPositiveStepsRejected ==
    (Returned("modal") /\ inp.num_steps <= 0) =>
        ret.status = "InvalidParameterError"

\* A Harmonic input whose mode has omega_i <= nu_i = Cp_ii / (2 Mp_ii).
Overdamped(in) ==
    LET e == eigh(in.K, in.M)
        nu == RDiv(RMul(e.phi, RMul(in.C, e.phi)),
                   RMul(R(2), RMul(e.phi, RMul(in.M, e.phi))))
    IN  RLe(e.omega2, RMul(nu, nu))

\* C6 (as claimed): Harmonic.modal_superposition with a mode of
\* omega_i <= nu_i fails with OverdampedModeError and returns no
\* displacement matrix.
C6_OverdampedModeRejected ==
    (Returned("modal") /\ inp.kind = "Harmonic" /\ inp.num_steps >= 1
        /\ Overdamped(inp)) =>
        ret.status = "OverdampedModeError"

At(arr, k) == arr[k + 1]
Put(arr, k, x) == [arr EXCEPT ![k + 1] = x]

\* np.empty((n, len)): a fresh array whose cells hold whatever the memory
\* held; the cells of one array share one arbitrary value g.
Garbage == {R(0), R(7)}
Empty(len, g) == [k \in 1..len |-> g]

\* The caller's force history fext(t), built from the load models.
fext(fx, time) ==
    IF fx = "step" THEN Impulsive_load(R(2), R(1), time)
    ELSE Ramp_load(R(2), R(2), time)

\* u_1 of diferencacentral is first an array of its own, then the numpy
\* view u[:, i - 1] of a column of u.
Own(x) == [view |-> FALSE, val |-> x, col |-> 0]
View(k) == [view |-> TRUE, val |-> R(0), col |-> k]
Deref(x, arr) == IF x.view THEN At(arr, x.col) ELSE x.val

\* ao = inv(M) @ (f - C @ vo - K @ uo)
InitialAcceleration(in) ==
    RDiv(RSub(RSub(fext(in.fx, R(0)), RMul(in.C, in.vo)), RMul(in.K, in.uo)), in.M)

\* for i in range(1, len(t)): the range is exhausted once i reaches len(t).
\* Fault variant: range(1, len(t) - 1), one iteration short.
range_exhausted_early(k, len) == k >= len - 1

range_exhausted(k, len) == k >= len

NewmarkCoef(dt, gama, beta) ==
    [a0 |-> RInv(RMul(RMul(dt, dt), beta)),
     a1 |-> RDiv(gama, RMul(dt, beta)),
     a2 |-> RInv(RMul(dt, beta)),
     a3 |-> RSub(RInv(RMul(R(2), beta)), R(1)),
     a4 |-> RSub(RDiv(gama, beta), R(1)),
     a5 |-> RMul(dt, RSub(RDiv(gama, RMul(R(2), beta)), R(1))),
     a6 |-> RMul(RSub(R(1), gama), dt),
     a7 |-> RMul(gama, dt)]

\* One iteration of newmark_linear: column i from f(t_i) and column i - 1.
NewmarkColumn(in, time, up, vp, ap) ==
    LET c == NewmarkCoef(in.dt, in.gama, in.beta)
        Kb == RAdd(RAdd(in.K, RMul(c.a1, in.C)), RMul(c.a0, in.M))
        fk1 == RAdd(RAdd(fext(in.fx, time),
                   RMul(in.M, RAdd(RAdd(RMul(c.a0, up), RMul(c.a2, vp)), RMul(c.a3, ap)))),
                   RMul(in.C, RAdd(RAdd(RMul(c.a1, up), RMul(c.a4, vp)), RMul(c.a5, ap))))
        uk1 == RDiv(fk1, Kb)
        ak1 == RSub(RSub(RMul(c.a0, RSub(uk1, up)), RMul(c.a2, vp)), RMul(c.a3, ap))
        vk1 == RAdd(RAdd(vp, RMul(c.a6, ap)), RMul(c.a7, ak1))
    IN  [u |-> uk1, v |-> vk1, a |-> ak1]

CdCoef(dt) ==
    LET a0 == RInv(RMul(dt, dt))
        a2 == RMul(R(2), a0)
    IN  [a0 |-> a0, a1 |-> RInv(RMul(R(2), dt)), a2 |-> a2, a3 |-> RInv(a2)]

\* u_1 = uo - dt * vo + a3 * ao
CdStarter(in) ==
    RAdd(RSub(in.uo, RMul(in.dt, in.vo)), RMul(CdCoef(in.dt).a3, InitialAcceleration(in)))

\* One iteration of diferencacentral: column i from f(t_i), the carried
\* u_1 and column i - 1 of u.
CdColumn(in, time, um2, um1) ==
    LET c == CdCoef(in.dt)
        Kb == RAdd(RMul(c.a1, in.C), RMul(c.a0, in.M))
        fk1 == RSub(RSub(fext(in.fx, time),
                         RMul(RSub(RMul(c.a0, in.M), RMul(c.a1, in.C)), um2)),
                    RMul(RSub(in.K, RMul(c.a2, in.M)), um1))
        uk1 == RDiv(fk1, Kb)
    IN  [u |-> uk1,
         v |-> RMul(c.a1, RSub(uk1, um2)),
         a |-> RMul(c.a0, RAdd(RSub(uk1, RMul(R(2), um1)), um2))]

\* u_1 = u[:, i - 1] at the end of iteration i.
\* Fault variant: u_1 = u[:, i], the column just written.
CdCarryNew(k) == View(k)

CdCarry(k) == View(k - 1)

IntegRaised(exc) == [status |-> exc, t |-> <<>>, u |-> <<>>, v |-> <<>>, a |-> <<>>]
IntegNoResult == IntegRaised("none")

IntegInputs ==
    [method : {"newmark"}, gama : {<<1, 2>>}, beta : {<<1, 4>>, <<1, 6>>},
     M : {R(1), R(2)}, C : {R(0), R(1)}, K : {R(3)},
     uo : {R(0), R(1)}, vo : {R(0), R(1)}, fx : {"step", "ramp"},
     tf : 0..MaxTf, dt : {R(1), R(2)}]
    \cup
    [method : {"cd"}, gama : {R(0)}, beta : {R(0)},
     M : {R(1), R(2)}, C : {R(0), R(1)}, K : {R(3)},
     uo : {R(0), R(1)}, vo : {R(0), R(1)}, fx : {"step", "ramp"},
     tf : 0..MaxTf, dt : {R(1), R(2)}]

InitInteg ==
    /\ pc = "start"
    /\ inp \in IntegInputs
    /\ call = 1
    /\ ret = IntegNoResult
    /\ ret1 = IntegNoResult
    /\ Idle

\* newmark_linear up to the loop.  The assignments of ao, vo and uo all go
\* to a[:, 0]; with an empty grid the first of them raises IndexError.
NewmarkSetup ==
    /\ pc = "start" /\ inp.method = "newmark"
    /\ LET grid == arange(R(inp.tf), inp.dt)
           ao == InitialAcceleration(inp)
       IN  IF Len(grid) = 0
           THEN /\ pc' = "raised"
                /\ ret' = IntegRaised("IndexError")
                /\ UNCHANGED <<t, u, v, a, u_1, i>>
           ELSE /\ \E ga, gv, gu \in Garbage :
                      /\ a' = Put(Put(Put(Empty(Len(grid), ga), 0, ao), 0, inp.vo), 0, inp.uo)
                      /\ v' = Empty(Len(grid), gv)
                      /\ u' = Empty(Len(grid), gu)
                /\ t' = grid
                /\ i' = 1
                /\ pc' = "loop"
                /\ UNCHANGED <<ret, u_1>>
    /\ UNCHANGED <<inp, call, ret1, n_iter>>

NewmarkStep ==
    /\ pc = "loop" /\ inp.method = "newmark"
    /\ ~range_exhausted(i, Len(t))
    /\ LET col == NewmarkColumn(inp, At(t, i), At(u, i - 1), At(v, i - 1), At(a, i - 1))
       IN  /\ u' = Put(u, i, col.u)
           /\ a' = Put(a, i, col.a)
           /\ v' = Put(v, i, col.v)
    /\ i' = i + 1
    /\ n_iter' = n_iter + 1
    /\ UNCHANGED <<pc, inp, call, ret, ret1, t, u_1>>

\* diferencacentral up to the loop.
CdSetup ==
    /\ pc = "start" /\ inp.method = "cd"
    /\ LET grid == arange(R(inp.tf), inp.dt)
           ao == InitialAcceleration(inp)
       IN  IF Len(grid) = 0
           THEN /\ pc' = "raised"
                /\ ret' = IntegRaised("IndexError")
                /\ UNCHANGED <<t, u, v, a, u_1, i>>
           ELSE /\ \E ga, gv, gu \in Garbage :
                      /\ a' = Put(Empty(Len(grid), ga), 0, ao)
                      /\ v' = Put(Empty(Len(grid), gv), 0, inp.vo)
                      /\ u' = Put(Empty(Len(grid), gu), 0, inp.uo)
                /\ u_1' = Own(CdStarter(inp))
                /\ t' = grid
                /\ i' = 1
                /\ pc' = "loop"
                /\ UNCHANGED ret
    /\ UNCHANGED <<inp, call, ret1, n_iter>>

CdStep ==
    /\ pc = "loop" /\ inp.method = "cd"
    /\ ~range_exhausted(i, Len(t))
    /\ LET col == CdColumn(inp, At(t, i), Deref(u_1, u), At(u, i - 1))
       IN  /\ u' = Put(u, i, col.u)
           /\ v' = Put(v, i, col.v)
           /\ a' = Put(a, i, col.a)
    /\ u_1' = CdCarry(i)
    /\ i' = i + 1
    /\ n_iter' = n_iter + 1
    /\ UNCHANGED <<pc, inp, call, ret, ret1, t>>

\* return t, u, v, a
Return ==
    /\ pc = "loop"
    /\ range_exhausted(i, Len(t))
    /\ ret' = [status |-> "ok", t |-> t, u |-> u, v |-> v, a |-> a]
    /\ pc' = "returned"
    /\ UNCHANGED <<inp, call, ret1, t, u, v, a, u_1, i, n_iter>>

\* A second call of the same integrator with equal arguments.
CallAgainSameInputs ==
    /\ pc \in {"returned", "raised"} /\ call = 1
    /\ ret1' = ret
    /\ ret' = IntegNoResult
    /\ call' = 2
    /\ pc' = "start"
    /\ t' = <<>> /\ u' = <<>> /\ v' = <<>> /\ a' = <<>>
    /\ u_1' = Own(R(0))
    /\ i' = 0
    /\ n_iter' = 0
    /\ UNCHANGED inp

NextInteg ==
    NewmarkSetup \/ NewmarkStep \/ CdSetup \/ CdStep \/ Return \/ CallAgainSameInputs

SpecInteg == InitInteg /\ [][NextInteg]_vars

(***************************************************************************)
(* Properties of the integrators (SpecInteg).                              *)
(***************************************************************************)

\* C1 (as claimed): when the grid has at least one sample, newmark_linear
\* returns u, v, a with column 0 equal to u0, v0 and
\* a0 = M^-1 (f(0) - C v0 - K u0).
C1_NewmarkColumn0IsInitialState ==
    (pc = "returned" /\ inp.method = "newmark") =>
        /\ At(ret.u, 0) = inp.uo
        /\ At(ret.v, 0) = inp.vo
        /\ At(ret.a, 0) = InitialAcceleration(inp)

\* C2 (as claimed): two calls of an integrator with equal arguments return
\* equal time grids and equal u, v, a matrices, whatever the fresh working
\* arrays held.
C2_EqualInputsEqualOutputs ==
    (pc \in {"returned", "raised"} /\ call = 2) => ret = ret1

\* The displacement two steps before step k of diferencacentral: the
\* fictitious starter u_-1 = u0 - dt v0 + (dt^2 / 2) a0 for k = 1.
TwoStepsBefore(k) ==
    IF k = 1
    THEN RAdd(RSub(inp.uo, RMul(inp.dt, inp.vo)),
              RMul(RDiv(RMul(inp.dt, inp.dt), R(2)), InitialAcceleration(inp)))
    ELSE At(u, k - 2)

\* C8: in diferencacentral, at the start of iteration i the carried u_1 is
\* u at step i - 2 (the starter for i = 1), and every column k already
\* computed solves Kb u_k = f(t_k) - (M/dt^2 - C/(2dt)) u_{k-2}
\* - (K - 2M/dt^2) u_{k-1}, with v_k = (u_k - u_{k-2}) / (2dt) and
\* a_k = (u_k - 2 u_{k-1} + u_{k-2}) / dt^2.
C8_CentralDifferenceStencil ==
    (pc = "loop" /\ inp.method = "cd") =>
        LET dt2 == RMul(inp.dt, inp.dt)
            twodt == RMul(R(2), inp.dt)
            Kb == RAdd(RDiv(inp.M, dt2), RDiv(inp.C, twodt))
        IN  /\ Deref(u_1, u) = TwoStepsBefore(i)
            /\ \A k \in 1..(i - 1) :
                   /\ RMul(Kb, At(u, k)) =
                          RSub(RSub(fext(inp.fx, At(t, k)),
                                    RMul(RSub(RDiv(inp.M, dt2), RDiv(inp.C, twodt)),
                                         TwoStepsBefore(k))),
                               RMul(RSub(inp.K, RDiv(RMul(R(2), inp.M), dt2)),
                                    At(u, k - 1)))
                   /\ At(v, k) = RDiv(RSub(At(u, k), TwoStepsBefore(k)), twodt)
                   /\ At(a, k) =
                          RDiv(RAdd(RSub(At(u, k), RMul(R(2), At(u, k - 1))),
                                    TwoStepsBefore(k)), dt2)

\* C8 witness: the loop of diferencacentral has carried a column of u
\* twice, and the last three displacements differ pairwise.
C8_Witness ==
    /\ pc = "loop" /\ inp.method = "cd" /\ i >= 3
    /\ u_1.view
    /\ At(u, i - 1) # At(u, i - 2)
    /\ At(u, i - 2) # At(u, i - 3)
    /\ At(u, i - 1) # At(u, i - 3)

\* What one step of an integrator call may change: the loop starts at
\* i = 1, i never passes T (so T - i, which every iteration lowers by one,
\* bounds the iterations left), iteration i writes column i only and moves
\* to i + 1, and the return hands back the arrays after T-1 iterations.
LoopStepEffect ==
    /\ (pc = "start" /\ pc' = "loop") => (i' = 1 /\ n_iter' = 0)
    /\ (pc' = "loop") => i' \in 1..Len(t')
    /\ (pc = "loop" /\ pc' = "loop") =>
           /\ i \in 1..(Len(t) - 1)
           /\ i' = i + 1
           /\ n_iter' = i
           /\ t' = t
           /\ Len(u') = Len(t) /\ Len(v') = Len(t) /\ Len(a') = Len(t)
           /\ \A k \in 0..(Len(t) - 1) :
                  k # i => /\ At(u', k) = At(u, k)
                           /\ At(v', k) = At(v, k)
                           /\ At(a', k) = At(a, k)
    /\ (pc = "loop" /\ pc' = "returned") =>
           /\ i = Len(t)
           /\ n_iter = Len(t) - 1
           /\ ret' = [status |-> "ok", t |-> t, u |-> u, v |-> v, a |-> a]

\* C9: in both integrators the loop visits i = 1..T-1 in increasing order,
\* iteration i writes column i of u, v, a and leaves every other column
\* as it was, and the call returns after exactly T-1 iterations with the
\* arrays the loop left.
C9_LoopWritesColumnIOnly == [][LoopStepEffect]_vars

\* C9 witness: an integrator has returned after two iterations over a grid
\* of three samples.
C9_Witness ==
    /\ pc = "returned" /\ n_iter = 2 /\ Len(ret.t) = 3

=============================================================================
